---- MODULE Spec2Model ----
(***************************************************************************)
(* Model of fraggen's FragmentGenerator (src/src/lib.rs): one run of       *)
(* generate() over a parsed schema document.                               *)
(*                                                                         *)
(* The schema document is the list of type definitions the parser hands    *)
(* over.  The documents considered are those the parser accepts without a  *)
(* parse error and in which every definition carries its name, its body    *)
(* and the types of its fields, so the `.ok_or(Schema("... has no ..."))`  *)
(* exits of the code are never taken.  References between types are NOT    *)
(* validated by the program, so documents with undeclared type names,      *)
(* cyclic interface hierarchies and implements lists that are not          *)
(* transitively closed are all inputs.                                     *)
(*                                                                         *)
(* The sink is modelled as the sequence of text lines written with         *)
(* writeln!; every line is built by the same string formatting as the      *)
(* code.  Writes to the sink succeed.  All runs use the prefix "My" and    *)
(* the suffix "Fields".                                                    *)
(***************************************************************************)
EXTENDS Integers, Sequences, FiniteSets, TLC

\* ------------------------------------------------------------------------
\* Bounds of the model
\* ------------------------------------------------------------------------
MaxIfaces == 4      \* interfaces in a resolver document
MaxImpl == 2        \* length of an implements list
MaxFields == 2      \* declared fields of the object under test
MaxWrap == 2        \* List / NonNull wrappers around a named type
MaxArgs == 2        \* arguments of a field
MaxMembers == 2     \* members of a union

\* ------------------------------------------------------------------------
\* Generic helpers
\* ------------------------------------------------------------------------
Range(s) == {s[i] : i \in 1..Len(s)}

RECURSIVE DistinctSeqs(_, _)
\* all sequences of pairwise distinct elements of S, of length at most k
DistinctSeqs(S, k) ==
    IF k = 0 THEN {<<>>}
    ELSE LET shorter == DistinctSeqs(S, k - 1)
         IN  shorter \cup
             UNION {{Append(s, x) : x \in S \ Range(s)} :
                        s \in {t \in shorter : Len(t) = k - 1}}

RECURSIVE Flatten(_)
\* concatenation of a sequence of sequences
Flatten(ss) == IF ss = <<>> THEN <<>> ELSE Head(ss) \o Flatten(Tail(ss))

\* ------------------------------------------------------------------------
\* The syntax tree: types, fields, definitions
\* ------------------------------------------------------------------------
\* apollo_parser::ast::Type: NamedType | ListType | NonNullType
NamedType(n) == [tag |-> "NamedType", name |-> n]
ListType(t) == [tag |-> "ListType", ty |-> t]
NonNullType(t) == [tag |-> "NonNullType", ty |-> t]

\* a field definition, an input value definition (args = <<>>: no argument
\* list) and an argument
FieldDef(n, t, a) == [name |-> n, ty |-> t, args |-> a]
ArgDef(n, t) == [name |-> n, ty |-> t]

\* type definitions, one record shape for all kinds
InterfaceDef(n, impl, fs) ==
    [kind |-> "Interface", name |-> n, implements |-> impl, fields |-> fs,
     members |-> <<>>]
ObjectDef(n, impl, fs) ==
    [kind |-> "Object", name |-> n, implements |-> impl, fields |-> fs,
     members |-> <<>>]
UnionDef(n, ms) ==
    [kind |-> "Union", name |-> n, implements |-> <<>>, fields |-> <<>>,
     members |-> ms]
InputObjectDef(n, fs) ==
    [kind |-> "InputObject", name |-> n, implements |-> <<>>, fields |-> fs,
     members |-> <<>>]
EnumDef(n) ==
    [kind |-> "Enum", name |-> n, implements |-> <<>>, fields |-> <<>>,
     members |-> <<>>]
ScalarDef(n) ==
    [kind |-> "Scalar", name |-> n, implements |-> <<>>, fields |-> <<>>,
     members |-> <<>>]

\* ------------------------------------------------------------------------
\* The documents of the model
\* ------------------------------------------------------------------------
BuiltinScalars == {"Int", "Float", "String", "ID", "Boolean"}

IfaceNamePool == <<"A", "B", "C", "D", "E", "F">>
IfaceFieldPool == <<"a", "b", "c", "d", "e", "f">>
Ghost == "Ghost"    \* a type name no document declares

Leaf(n, t) == FieldDef(n, NamedType(t), <<>>)

\* definitions every document ends with
BarDef == ObjectDef("Bar", <<>>, <<Leaf("baz", "Int")>>)
EnumsAndScalars == <<EnumDef("Style"), ScalarDef("Date")>>
BeerInput ==
    InputObjectDef("BeerInput",
                   <<Leaf("name", "String"), Leaf("style", "Style"),
                     Leaf("abv", "Float")>>)
SearchUnion == UnionDef("Search", <<"Foo", "Bar">>)

\* a document is a record of its definitions by group; Layout orders them
Doc(ifaces, objs, unions, inputs) ==
    [ifaces |-> ifaces, objs |-> objs, unions |-> unions, inputs |-> inputs]

\* 1. resolver documents: n interfaces, each implementing nothing, the
\*    interface declared before it, itself, the interface declared after it,
\*    or an undeclared name
ResolverIfaces(n) ==
    LET near(i) == {IfaceNamePool[j] : j \in {i - 1, i, i + 1} \cap 1..n}
        impls == {im \in [1..n -> DistinctSeqs({IfaceNamePool[j] : j \in 1..n}
                                                   \cup {Ghost}, 1)] :
                      \A i \in 1..n : Range(im[i]) \subseteq near(i) \cup {Ghost}}
    IN  {[i \in 1..n |->
             InterfaceDef(IfaceNamePool[i], im[i],
                          <<Leaf("id", "ID"),
                            Leaf(IfaceFieldPool[i], "Int")>>)] : im \in impls}

ResolverFoo(n) ==
    ObjectDef("Foo", IF n = 0 THEN <<>> ELSE <<"A">>,
              <<Leaf("id", "ID"), Leaf("foo", "Bar")>>)

ResolverDocs ==
    UNION {{Doc(is, <<ResolverFoo(n), BarDef>>, <<SearchUnion>>, <<BeerInput>>)
               : is \in ResolverIfaces(n)} : n \in 0..MaxIfaces}

\* 2. wide documents: three interfaces, each implementing any list of the
\*    other two
WideNames == {"A", "B", "C"}
WideDocs ==
    LET impls == {im \in [1..3 -> DistinctSeqs(WideNames, MaxImpl)] :
                      \A i \in 1..3 : IfaceNamePool[i] \notin Range(im[i])}
    IN  {Doc([i \in 1..3 |->
                 InterfaceDef(IfaceNamePool[i], im[i],
                              <<Leaf("id", "ID"),
                                Leaf(IfaceFieldPool[i], "Int")>>)],
             <<ObjectDef("Foo", <<"C", "A">>,
                         <<Leaf("id", "ID"), Leaf("c", "Int"),
                           Leaf("foo", "Bar")>>), BarDef>>,
             <<SearchUnion>>, <<BeerInput>>) : im \in impls}

\* 3. object documents: a fixed interface chain, the object under test
\*    implements any list of names and declares any list of leaf fields
ChainIfaces ==
    <<InterfaceDef("A", <<>>, <<Leaf("id", "ID"), Leaf("a", "Int")>>),
      InterfaceDef("B", <<"A">>,
                   <<Leaf("id", "ID"), Leaf("a", "Int"), Leaf("b", "Int")>>),
      InterfaceDef("C", <<>>, <<Leaf("id", "ID"), Leaf("c", "Style")>>)>>

ObjectDocs ==
    {Doc(ChainIfaces,
         <<ObjectDef("Foo", im, [i \in 1..Len(fs) |-> Leaf(fs[i], "Int")]),
           BarDef>>,
         <<SearchUnion>>, <<BeerInput>>) :
        im \in DistinctSeqs({"A", "B", "C", Ghost}, MaxImpl),
        fs \in DistinctSeqs({"id", "b", "foo"}, MaxFields) \ {<<>>}}

\* 4. field documents: one field of any wrapped type with any argument list
TypeNames == {"Int", "Style", "Date", "Bar", "A", "Search", "BeerInput", Ghost}

RECURSIVE TypesAt(_, _)
\* the types with exactly d wrappers around the named type n
TypesAt(n, d) ==
    IF d = 0 THEN {NamedType(n)}
    ELSE {ListType(t) : t \in TypesAt(n, d - 1)} \cup
         {NonNullType(t) : t \in {u \in TypesAt(n, d - 1) :
                                      u.tag # "NonNullType"}}

Types(names) == UNION {TypesAt(n, d) : n \in names, d \in 0..MaxWrap}

ArgPool ==
    {ArgDef("top", NamedType("Int")),
     ArgDef("beer", NamedType("BeerInput")),
     ArgDef("owner", NonNullType(NamedType("Bar")))}

FieldDocs ==
    {Doc(<<ChainIfaces[1]>>,
         <<ObjectDef("Foo", <<>>, <<Leaf("id", "ID"), FieldDef("f", t, a)>>),
           BarDef>>,
         <<SearchUnion>>, <<BeerInput>>) :
        t \in Types(TypeNames), a \in DistinctSeqs(ArgPool, MaxArgs)}

\* 5. input documents: an input object with a field of any wrapped type
InputDocs ==
    {Doc(<<ChainIfaces[1]>>, <<BarDef>>, <<SearchUnion>>,
         <<InputObjectDef("Filter",
                          <<Leaf("name", "String"), FieldDef("by", t, <<>>)>>),
           BeerInput>>) : t \in Types(TypeNames)}

\* 6. union documents: a union of any member list
UnionDocs ==
    {Doc(<<>>, <<BarDef>>, <<UnionDef("Pick", ms), SearchUnion>>, <<>>) :
        ms \in DistinctSeqs({"Foo", "Bar", Ghost}, MaxMembers) \ {<<>>}}

\* the order of the definitions in the schema text
Layouts == {"interfaces first", "interfaces last"}
Layout(d, l) ==
    IF l = "interfaces first"
    THEN EnumsAndScalars \o d.ifaces \o d.unions \o d.objs \o d.inputs
    ELSE d.inputs \o d.objs \o d.unions \o d.ifaces \o EnumsAndScalars

\* the runs of the model, <<schema, add_typename>>: the hierarchies with the
\* interfaces declared after the types that use them and the option set, the
\* objects under test in both orders, everything else with the interfaces
\* first, all of these with the option set and not
Inputs ==
    {<<Layout(d, "interfaces last"), TRUE>> : d \in ResolverDocs \cup WideDocs}
        \cup {<<Layout(d, l), t>> :
                  d \in ObjectDocs \cup UnionDocs, l \in Layouts, t \in BOOLEAN}
        \cup {<<Layout(d, "interfaces first"), t>> :
                  d \in FieldDocs \cup InputDocs, t \in BOOLEAN}

\* ------------------------------------------------------------------------
\* State of one run of generate()
\* ------------------------------------------------------------------------
VARIABLES
    document,            \* syntax_tree: the definitions, in schema order
    prefix, suffix,      \* fragment name prefix and suffix
    add_typename,        \* the option "add __typename"
    output,              \* the sink: the lines written so far
    resolved,            \* HashMap type name -> own field names
    scalar_type_names,   \* HashSet of the leaf type names
    iface_typedefs,      \* VecDeque worklist of the interface loop
    capacity,            \* iface_typedefs.capacity()
    recursions,          \* the requeue counter of the interface loop
    union_typedefs,      \* definitions the later loops still have to visit
    obj_typedefs,
    input_obj_typedefs,
    pc,                  \* "start", "running" or "done"
    result               \* "pending", "Ok" or the message of the Err returned

vars ==
    <<document, prefix, suffix, add_typename, output, resolved,
      scalar_type_names, iface_typedefs, capacity, recursions, union_typedefs,
      obj_typedefs, input_obj_typedefs, pc, result>>

\* FragmentGeneratorError::Schema messages the documents of the model can raise
ErrRecursionLimit ==
    "recursion limit reached while resolving interface hierarchy"
ErrUnresolvedInterface == "couldn't resolve implemented interface type"
NoError == "none"

\* the state FragmentGenerator::new builds, for any schema and options
Init ==
    /\ \E in \in Inputs : document = in[1] /\ add_typename = in[2]
    /\ prefix = "My"
    /\ suffix = "Fields"
    /\ output = <<>>
    /\ resolved = <<>>
    /\ scalar_type_names = BuiltinScalars
    /\ iface_typedefs = <<>>
    /\ capacity = 0
    /\ recursions = 0
    /\ union_typedefs = <<>>
    /\ obj_typedefs = <<>>
    /\ input_obj_typedefs = <<>>
    /\ pc = "start"
    /\ result = "pending"

\* ------------------------------------------------------------------------
\* Text formatting
\* ------------------------------------------------------------------------
fragment_name(type_name) == prefix \o type_name \o suffix

RECURSIVE Join(_, _)
\* args.join(sep)
Join(strs, sep) ==
    IF strs = <<>> THEN ""
    ELSE IF Len(strs) = 1 THEN strs[1]
    ELSE strs[1] \o sep \o Join(Tail(strs), sep)

\* the header line of a fragment
HeaderLine(type_name) ==
    "fragment " \o fragment_name(type_name) \o " on " \o type_name \o " {"

\* the spread lines of an implements list
SpreadLines(implements) ==
    [i \in 1..Len(implements) |-> "  ..." \o fragment_name(implements[i])]

\* the argument list of a field: "" without arguments
arglist(args) ==
    IF args # <<>>
    THEN "(" \o Join([i \in 1..Len(args) |->
                         args[i].name \o ": $" \o args[i].name], ", ") \o ")"
    ELSE ""

\* a classifier that forgets the enums and scalars the schema declares
is_scalar_builtin_only(type_name) == type_name \in BuiltinScalars

is_scalar(type_name) == type_name \in scalar_type_names

\* the lines written for a field whose wrappers have been stripped
write_field_with_named_type(field_name, type_name, args) ==
    IF is_scalar(type_name)
    THEN <<"  " \o field_name \o arglist(args)>>
    ELSE <<"  # " \o field_name \o arglist(args) \o " {",
           "  #   ..." \o fragment_name(type_name),
           "  # }">>

RECURSIVE write_field(_, _, _)
\* strips the wrappers of ty, then writes the field
write_field(field_name, ty, args) ==
    CASE ty.tag = "NamedType" ->
             write_field_with_named_type(field_name, ty.name, args)
      [] ty.tag = "ListType" -> write_field(field_name, ty.ty, args)
      [] ty.tag = "NonNullType" ->
             IF ty.ty.tag = "ListType"
             THEN write_field(field_name, ty.ty.ty, args)
             ELSE write_field_with_named_type(field_name, ty.ty.name, args)

\* ------------------------------------------------------------------------
\* Fields of a fragment
\* ------------------------------------------------------------------------
\* a lookup that finds every interface but inherits nothing from it
inherited_fields_nothing(implements) ==
    IF \E i \in 1..Len(implements) : implements[i] \notin DOMAIN resolved
    THEN [err |-> ErrUnresolvedInterface, names |-> {}]
    ELSE [err |-> NoError, names |-> {}]

\* a lookup that takes a name without an entry for an interface without
\* fields
inherited_fields_missing_is_empty(implements) ==
    [err |-> NoError,
     names |-> UNION {Range(resolved[implements[i]]) :
                          i \in {j \in 1..Len(implements) :
                                     implements[j] \in DOMAIN resolved}}]

\* the field names the implemented interfaces recorded, or the error of a
\* name without an entry
inherited_fields(implements) ==
    IF \E i \in 1..Len(implements) : implements[i] \notin DOMAIN resolved
    THEN [err |-> ErrUnresolvedInterface, names |-> {}]
    ELSE [err |-> NoError,
          names |-> UNION {Range(resolved[implements[i]]) :
                               i \in 1..Len(implements)}]

\* [err, lines, own]: the field lines of an object or interface and the
\* names of the fields written
write_fields(fields, implements) ==
    LET inh == inherited_fields(implements)
        kept == SelectSeq(fields, LAMBDA f : f.name \notin inh.names)
    IN  IF inh.err # NoError
        THEN [err |-> inh.err, lines |-> <<>>, own |-> <<>>]
        ELSE [err |-> NoError,
              lines |-> Flatten([i \in 1..Len(kept) |->
                            write_field(kept[i].name, kept[i].ty,
                                        kept[i].args)]),
              own |-> [i \in 1..Len(kept) |-> kept[i].name]]

\* the same for the fields of an input object: no arguments, nothing skipped
write_input_fields(fields) ==
    [err |-> NoError,
     lines |-> Flatten([i \in 1..Len(fields) |->
                   write_field(fields[i].name, fields[i].ty, <<>>)]),
     own |-> [i \in 1..Len(fields) |-> fields[i].name]]

\* ------------------------------------------------------------------------
\* Fragments: [err, lines, own] of one definition
\* ------------------------------------------------------------------------
\* a fragment that ends without its blank line
FragmentWithoutBlankLine(head, fs) ==
    IF fs.err # NoError
    THEN [err |-> fs.err, lines |-> head, own |-> <<>>]
    ELSE [err |-> NoError, lines |-> head \o fs.lines \o <<"}">>,
          own |-> fs.own]

\* what a fragment writes around its fields: on an error of the fields the
\* lines written before them stay in the sink
Fragment(head, fs) ==
    IF fs.err # NoError
    THEN [err |-> fs.err, lines |-> head, own |-> <<>>]
    ELSE [err |-> NoError, lines |-> head \o fs.lines \o <<"}", "">>,
          own |-> fs.own]

write_interface_fragment(typedef) ==
    Fragment(<<HeaderLine(typedef.name)>> \o SpreadLines(typedef.implements),
             write_fields(typedef.fields, typedef.implements))

write_object_fragment(typedef) ==
    Fragment(<<HeaderLine(typedef.name)>>
                 \o (IF add_typename THEN <<"  __typename">> ELSE <<>>)
                 \o SpreadLines(typedef.implements),
             write_fields(typedef.fields, typedef.implements))

write_input_object_fragment(typedef) ==
    Fragment(<<HeaderLine(typedef.name)>>
                 \o (IF add_typename THEN <<"  __typename">> ELSE <<>>),
             write_input_fields(typedef.fields))

\* the three lines written for a member of a union
UnionMemberLines(type_name) ==
    <<"  ... on " \o type_name \o " {",
      "    ..." \o fragment_name(type_name) \o " {",
      "  }">>

write_union_fragment(typedef) ==
    [err |-> NoError,
     lines |-> <<HeaderLine(typedef.name)>>
                   \o Flatten([i \in 1..Len(typedef.members) |->
                                  UnionMemberLines(typedef.members[i])])
                   \o <<"}", "">>]

\* ------------------------------------------------------------------------
\* execute()
\* ------------------------------------------------------------------------
OfKind(k) == SelectSeq(document, LAMBDA d : d.kind = k)

RECURSIVE Doubled(_, _)
\* the least of c, 2c, 4c, ... that is at least n
Doubled(c, n) == IF c >= n THEN c ELSE Doubled(2 * c, n)

\* iface_typedefs.capacity() after n push_back on VecDeque::new().  The
\* standard library promises no value: its growable ring buffer allocates
\* nothing when empty, four slots on the first push and doubles when full;
\* the ring buffer of the releases before it starts with eight slots, one of
\* them kept free, and doubles.  pop_front never shrinks.
VecDequeCapacity(n) ==
    {IF n = 0 THEN 0 ELSE Doubled(4, n), Doubled(8, n + 1) - 1}

\* HashMap::insert
Insert(map, key, value) ==
    [k \in DOMAIN map \cup {key} |-> IF k = key THEN value ELSE map[k]]

\* the definitions are sorted by kind; enum and scalar names become leaf
\* type names
Partition ==
    /\ pc = "start"
    /\ iface_typedefs' = OfKind("Interface")
    /\ \E c \in VecDequeCapacity(Len(OfKind("Interface"))) : capacity' = c
    /\ union_typedefs' = OfKind("Union")
    /\ obj_typedefs' = OfKind("Object")
    /\ input_obj_typedefs' = OfKind("InputObject")
    /\ scalar_type_names' =
           scalar_type_names
               \cup {d.name : d \in Range(OfKind("Enum"))}
               \cup {d.name : d \in Range(OfKind("Scalar"))}
    /\ recursions' = 0
    /\ pc' = "running"
    /\ UNCHANGED <<document, prefix, suffix, add_typename, output, resolved,
                   result>>

\* a fragment's lines reach the sink; its own fields are recorded, or its
\* error ends the run
Commit(type_name, frag) ==
    /\ output' = output \o frag.lines
    /\ IF frag.err # NoError
       THEN /\ result' = frag.err
            /\ pc' = "done"
            /\ resolved' = resolved
       ELSE /\ resolved' = Insert(resolved, type_name, frag.own)
            /\ UNCHANGED <<result, pc>>

\* a resolver that looks at the first implemented interface only
AllResolvedFirstOnly(implements) ==
    implements = <<>> \/ implements[1] \in DOMAIN resolved

AllResolved(implements) ==
    \A i \in 1..Len(implements) : implements[i] \in DOMAIN resolved

\* a resolver without its limit
LimitReachedNever(count) == FALSE

\* recursions > iface_typedefs.capacity()
LimitReached(count) == count > capacity

\* the interface at the front declares no implements list: it is written
WriteRootInterface ==
    /\ pc = "running"
    /\ iface_typedefs # <<>>
    /\ Head(iface_typedefs).implements = <<>>
    /\ iface_typedefs' = Tail(iface_typedefs)
    /\ Commit(Head(iface_typedefs).name,
              write_interface_fragment(Head(iface_typedefs)))
    /\ UNCHANGED <<document, prefix, suffix, add_typename, scalar_type_names,
                   capacity, recursions, union_typedefs, obj_typedefs,
                   input_obj_typedefs>>

\* every interface it implements has an entry in resolved: it is written
WriteResolvedInterface ==
    /\ pc = "running"
    /\ iface_typedefs # <<>>
    /\ Head(iface_typedefs).implements # <<>>
    /\ AllResolved(Head(iface_typedefs).implements)
    /\ iface_typedefs' = Tail(iface_typedefs)
    /\ Commit(Head(iface_typedefs).name,
              write_interface_fragment(Head(iface_typedefs)))
    /\ UNCHANGED <<document, prefix, suffix, add_typename, scalar_type_names,
                   capacity, recursions, union_typedefs, obj_typedefs,
                   input_obj_typedefs>>

\* an implemented name has no entry yet: the interface goes to the back
RequeueInterface ==
    /\ pc = "running"
    /\ iface_typedefs # <<>>
    /\ ~AllResolved(Head(iface_typedefs).implements)
    /\ ~LimitReached(recursions + 1)
    /\ recursions' = recursions + 1
    /\ iface_typedefs' = Append(Tail(iface_typedefs), Head(iface_typedefs))
    /\ UNCHANGED <<document, prefix, suffix, add_typename, output, resolved,
                   scalar_type_names, capacity, union_typedefs, obj_typedefs,
                   input_obj_typedefs, pc, result>>

\* ... unless the counter passes the capacity of the worklist
RecursionLimit ==
    /\ pc = "running"
    /\ iface_typedefs # <<>>
    /\ ~AllResolved(Head(iface_typedefs).implements)
    /\ LimitReached(recursions + 1)
    /\ recursions' = recursions + 1
    /\ iface_typedefs' = Tail(iface_typedefs)
    /\ result' = ErrRecursionLimit
    /\ pc' = "done"
    /\ UNCHANGED <<document, prefix, suffix, add_typename, output, resolved,
                   scalar_type_names, capacity, union_typedefs, obj_typedefs,
                   input_obj_typedefs>>

WriteUnion ==
    /\ pc = "running"
    /\ iface_typedefs = <<>>
    /\ union_typedefs # <<>>
    /\ union_typedefs' = Tail(union_typedefs)
    /\ output' = output \o write_union_fragment(Head(union_typedefs)).lines
    /\ UNCHANGED <<document, prefix, suffix, add_typename, resolved,
                   scalar_type_names, iface_typedefs, capacity, recursions,
                   obj_typedefs, input_obj_typedefs, pc, result>>

WriteObject ==
    /\ pc = "running"
    /\ iface_typedefs = <<>>
    /\ union_typedefs = <<>>
    /\ obj_typedefs # <<>>
    /\ obj_typedefs' = Tail(obj_typedefs)
    /\ Commit(Head(obj_typedefs).name,
              write_object_fragment(Head(obj_typedefs)))
    /\ UNCHANGED <<document, prefix, suffix, add_typename, scalar_type_names,
                   iface_typedefs, capacity, recursions, union_typedefs,
                   input_obj_typedefs>>

WriteInputObject ==
    /\ pc = "running"
    /\ iface_typedefs = <<>>
    /\ union_typedefs = <<>>
    /\ obj_typedefs = <<>>
    /\ input_obj_typedefs # <<>>
    /\ input_obj_typedefs' = Tail(input_obj_typedefs)
    /\ Commit(Head(input_obj_typedefs).name,
              write_input_object_fragment(Head(input_obj_typedefs)))
    /\ UNCHANGED <<document, prefix, suffix, add_typename, scalar_type_names,
                   iface_typedefs, capacity, recursions, union_typedefs,
                   obj_typedefs>>

\* every loop has run out: Ok(())
ReturnOk ==
    /\ pc = "running"
    /\ iface_typedefs = <<>>
    /\ union_typedefs = <<>>
    /\ obj_typedefs = <<>>
    /\ input_obj_typedefs = <<>>
    /\ result' = "Ok"
    /\ pc' = "done"
    /\ UNCHANGED <<document, prefix, suffix, add_typename, output, resolved,
                   scalar_type_names, iface_typedefs, capacity, recursions,
                   union_typedefs, obj_typedefs, input_obj_typedefs>>

Next ==
    \/ Partition
    \/ WriteRootInterface
    \/ WriteResolvedInterface
    \/ RequeueInterface
    \/ RecursionLimit
    \/ WriteUnion
    \/ WriteObject
    \/ WriteInputObject
    \/ ReturnOk

Spec == Init /\ [][Next]_vars

\* the run is one sequential pass: a step that can be taken is taken
FairSpec == Spec /\ WF_vars(Next)

\* ------------------------------------------------------------------------
\* Vocabulary of the properties: the schema as declared, the sink as written
\* ------------------------------------------------------------------------
DeclaredNames(k) == {d.name : d \in Range(OfKind(k))}
DefOf(n) == CHOOSE d \in Range(document) : d.name = n
FragmentKinds == {"Interface", "Union", "Object", "InputObject"}
FragmentDefs == {d \in Range(document) : d.kind \in FragmentKinds}

\* where the header of type n stands in the sink
HeaderAt(n) == {i \in 1..Len(output) : output[i] = HeaderLine(n)}

\* the declared interfaces that n lists as implemented, and their closure
ImplementedIfaces(n) ==
    Range(DefOf(n).implements) \cap DeclaredNames("Interface")
RECURSIVE Closure(_)
Closure(S) ==
    LET T == S \cup UNION {ImplementedIfaces(n) : n \in S}
    IN  IF T = S THEN S ELSE Closure(T)
Ancestors(n) == Closure(ImplementedIfaces(n))
CyclicIfaces == {n \in DeclaredNames("Interface") : n \in Ancestors(n)}

C2_CycleFails ==
    /\ [](CyclicIfaces # {} =>
              /\ recursions <= capacity + 1
              /\ result \in {"pending", ErrRecursionLimit}
              /\ \A n \in CyclicIfaces : HeaderAt(n) = {})
    /\ <>(pc = "done" /\ result # "pending")

\* a hierarchy with a cycle through two or more interfaces, after requeues,
\* ended by the error
C2_Witness ==
    /\ \E n \in CyclicIfaces : n \notin ImplementedIfaces(n)
    /\ recursions > 1
    /\ pc = "done"
    /\ result = ErrRecursionLimit

\* ------------------------------------------------------------------------
\* More vocabulary: the block of a type in the sink, the schema's type names
\* ------------------------------------------------------------------------
SetMin(S) == CHOOSE x \in S : \A y \in S : x <= y

\* the lines from the header of n to the blank line after it (to the end of
\* the sink when the fragment was cut short)
BlockOf(n) ==
    LET i == SetMin(HeaderAt(n))
        blanks == {j \in i..Len(output) : output[j] = ""}
    IN  SubSeq(output, i, IF blanks = {} THEN Len(output) ELSE SetMin(blanks))

\* sub occurs in s as a run of consecutive lines
Contains(s, sub) ==
    \E i \in 1..(Len(s) - Len(sub) + 1) : SubSeq(s, i, i + Len(sub) - 1) = sub

\* the last lines of s are sub
EndsWith(s, sub) ==
    /\ Len(s) >= Len(sub)
    /\ SubSeq(s, Len(s) - Len(sub) + 1, Len(s)) = sub

RECURSIVE NamedTypeOf(_)
\* the named type under all wrappers
NamedTypeOf(t) == IF t.tag = "NamedType" THEN t.name ELSE NamedTypeOf(t.ty)

LeafTypeNames ==
    BuiltinScalars \cup DeclaredNames("Enum") \cup DeclaredNames("Scalar")
CompoundTypeNames == {d.name : d \in FragmentDefs}
KnownTypeNames == LeafTypeNames \cup CompoundTypeNames

DeclaredFieldNames(n) == {f.name : f \in Range(DefOf(n).fields)}

\* the fields of d whose names are not in skip
FieldsOutside(d, skip) == SelectSeq(d.fields, LAMBDA f : f.name \notin skip)

\* the block of an object or interface d that spreads every implemented
\* interface once and then writes the fields outside skip
BlockSkipping(d, skip) ==
    <<"fragment " \o prefix \o d.name \o suffix \o " on " \o d.name \o " {">>
        \o (IF d.kind = "Object" /\ add_typename
            THEN <<"  __typename">> ELSE <<>>)
        \o [i \in 1..Len(d.implements) |->
               "  ..." \o prefix \o d.implements[i] \o suffix]
        \o Flatten([i \in 1..Len(FieldsOutside(d, skip)) |->
               LET f == FieldsOutside(d, skip)[i]
               IN  write_field(f.name, f.ty, f.args)])
        \o <<"}", "">>

WrittenTypes(kinds) ==
    {d \in FragmentDefs : d.kind \in kinds /\ d.name \in DOMAIN resolved}

RECURSIVE OwnFieldNames(_)
\* the fields an interface writes in its own fragment: those it declares
\* and does not inherit itself
OwnFieldNames(n) ==
    DeclaredFieldNames(n) \
        UNION {OwnFieldNames(m) : m \in Range(DefOf(n).implements)}

C4_TypenameOnlyInObjects ==
    \A d \in FragmentDefs :
        HeaderAt(d.name) # {} =>
            LET marked == "  __typename" \in Range(BlockOf(d.name))
            IN  IF d.kind = "Object" THEN marked => add_typename ELSE ~marked

\* ------------------------------------------------------------------------
\* C5 as stated: the block of a union is its header, one inline fragment
\* `... on M { ...<prefix>M<suffix> }` per member in declaration order with
\* every brace closed, and the closing lines.
\* ------------------------------------------------------------------------
C5_UnionBlocks ==
    \A d \in FragmentDefs :
        (d.kind = "Union" /\ HeaderAt(d.name) # {}) =>
            BlockOf(d.name) =
                <<"fragment " \o prefix \o d.name \o suffix \o " on "
                      \o d.name \o " {">>
                    \o Flatten([i \in 1..Len(d.members) |->
                           <<"  ... on " \o d.members[i] \o " {",
                             "    ..." \o prefix \o d.members[i] \o suffix,
                             "  }">>])
                    \o <<"}", "">>

\* ------------------------------------------------------------------------
\* C6: leaf or placeholder by the named type alone.  The written fields of
\* a written object, interface or input object end its block, each as one
\* live line when the named type under its wrappers is a built-in or
\* declared scalar or enum, and as the three commented lines naming
\* <prefix><Type><suffix> when it is a declared object, interface, union or
\* input object.
\* ------------------------------------------------------------------------
RenderingByKind(f) ==
    LET n == NamedTypeOf(f.ty)
    IN  IF n \in LeafTypeNames
        THEN <<"  " \o f.name \o arglist(f.args)>>
        ELSE IF n \in CompoundTypeNames
        THEN <<"  # " \o f.name \o arglist(f.args) \o " {",
               "  #   ..." \o prefix \o n \o suffix,
               "  # }">>
        ELSE write_field(f.name, f.ty, f.args)

ArgumentLines(a) ==
    IF NamedTypeOf(a.ty) \in DeclaredNames("InputObject")
    THEN <<"    " \o a.name \o ": {">>
             \o [i \in 1..Len(DefOf(NamedTypeOf(a.ty)).fields) |->
                    LET n == DefOf(NamedTypeOf(a.ty)).fields[i].name
                    IN  "      " \o n \o ": $" \o n]
             \o <<"    }">>
    ELSE <<"    " \o a.name \o ": $" \o a.name>>

C7_ArgumentBlock ==
    \A d \in WrittenTypes({"Object", "Interface"}) :
        \A f \in Range(d.fields) :
            (/\ f.name \in Range(resolved[d.name])
             /\ f.args # <<>>
             /\ NamedTypeOf(f.ty) \in LeafTypeNames) =>
                Contains(BlockOf(d.name),
                         <<"  " \o f.name \o " (">>
                             \o Flatten([i \in 1..Len(f.args) |->
                                            ArgumentLines(f.args[i])])
                             \o <<"  )">>)

\* ------------------------------------------------------------------------
\* C8 as stated: a reference to a type the schema does not declare aborts
\* the run: no run returns Ok over a schema with such a field type,
\* implements entry or argument type, and the recursion-limit (cycle) error
\* is not what an undeclared interface reference produces.
\* ------------------------------------------------------------------------
TypedDefs == {d \in FragmentDefs : d.kind # "Union"}
FieldTypeNames ==
    UNION {{NamedTypeOf(f.ty) : f \in Range(d.fields)} : d \in TypedDefs}
ArgumentsOf(d) == UNION {Range(f.args) : f \in Range(d.fields)}
ArgumentTypeNames ==
    UNION {{NamedTypeOf(a.ty) : a \in ArgumentsOf(d)} : d \in TypedDefs}
ImplementsNames(kinds) ==
    UNION {Range(d.implements) : d \in {e \in FragmentDefs : e.kind \in kinds}}

C8_UnknownTypeAborts ==
    /\ result = "Ok" =>
           (FieldTypeNames \cup ArgumentTypeNames
                \cup ImplementsNames({"Interface", "Object"}))
               \subseteq KnownTypeNames
    /\ result = ErrRecursionLimit =>
           ImplementsNames({"Interface"}) \subseteq KnownTypeNames

\* ------------------------------------------------------------------------
\* C9 as stated: no run returns Ok over a schema in which an argument has
\* an object, interface or union type, or an input object (used as an
\* argument or not) has a field of a compound type, input objects included.
\* ------------------------------------------------------------------------
HasUnsupportedType ==
    \/ ArgumentTypeNames \cap
           (DeclaredNames("Object") \cup DeclaredNames("Interface")
                \cup DeclaredNames("Union")) # {}
    \/ \E d \in FragmentDefs :
           /\ d.kind = "InputObject"
           /\ \E f \in Range(d.fields) :
                  NamedTypeOf(f.ty) \in CompoundTypeNames

C9_UnsupportedTypeAborts == result = "Ok" => ~HasUnsupportedType

\* ------------------------------------------------------------------------
\* C10: on Ok the sink is one block per declared interface, union, object
\* and input object.  Every header stands in it once, the blank lines are
\* as many as the types, each after a closing brace and before a header or
\* the end, and the blocks stand by kind: interfaces, unions, objects,
\* input objects.
\* ------------------------------------------------------------------------
KindRank(k) ==
    CASE k = "Interface" -> 1
      [] k = "Union" -> 2
      [] k = "Object" -> 3
      [] k = "InputObject" -> 4

AcyclicAndDeclared ==
    /\ CyclicIfaces = {}
    /\ ImplementsNames({"Interface"}) \subseteq DeclaredNames("Interface")

C11_AcyclicIsResolved ==
    (AcyclicAndDeclared /\ pc = "done") =>
        /\ result # ErrRecursionLimit
        /\ \A n \in DeclaredNames("Interface") : HeaderAt(n) # {}

\* ------------------------------------------------------------------------
\* The discipline of the map `resolved`
\* ------------------------------------------------------------------------
\* the types of the given kinds whose whole block stands in the sink
EmittedNames(kinds) ==
    {d.name : d \in {e \in FragmentDefs :
                         /\ e.kind \in kinds
                         /\ HeaderAt(e.name) # {}
                         /\ BlockOf(e.name)[Len(BlockOf(e.name))] = ""}}

\* the names of the fields of d that it does not inherit, in declaration order
OwnFieldSeq(d) ==
    LET own == FieldsOutside(d, UNION {OwnFieldNames(n) :
                                           n \in Range(d.implements)
                                                     \cap CompoundTypeNames})
    IN  [i \in 1..Len(own) |-> own[i].name]

\* the map has one entry for each emitted type of the given kinds and no
\* other; a type with an entry implements only types with an entry, and its
\* entry lists its own fields
EntryPerEmitted(kinds) ==
    /\ DOMAIN resolved = EmittedNames(kinds)
    /\ \A n \in DOMAIN resolved :
           /\ Range(DefOf(n).implements) \subseteq DOMAIN resolved
           /\ resolved[n] = OwnFieldSeq(DefOf(n))

\* a step keeps every entry as it is
EntriesKept ==
    \A n \in DOMAIN resolved :
        n \in DOMAIN resolved' /\ resolved'[n] = resolved[n]

\* a step that starts the fragment of an interface or object implementing a
\* name without an entry ends the run with an error and adds no entry
MissAborts ==
    \A d \in FragmentDefs :
        (/\ d.kind \in {"Interface", "Object"}
         /\ HeaderAt(d.name) = {}
         /\ HeaderAt(d.name)' # {}
         /\ \E n \in Range(d.implements) : n \notin DOMAIN resolved) =>
            /\ pc' = "done"
            /\ result' \notin {"pending", "Ok"}
            /\ resolved' = resolved

\* ------------------------------------------------------------------------
\* C12 as stated: the map always holds exactly one entry per emitted type
\* (interface, union, object or input object), the entry lists the type's
\* non-skipped own fields in declaration order, no step removes or changes
\* an entry, and a lookup of a name without an entry aborts the run.
\* ------------------------------------------------------------------------
C12_EntryPerEmittedType ==
    /\ [](EntryPerEmitted(FragmentKinds))
    /\ [][EntriesKept /\ MissAborts]_vars

\* ------------------------------------------------------------------------
\* C12 as amended: the same for the emitted interfaces, objects and input
\* objects; a union fragment adds no entry.
\* ------------------------------------------------------------------------
C12_EntryPerFieldedType ==
    /\ [](EntryPerEmitted({"Interface", "Object", "InputObject"}))
    /\ [][EntriesKept /\ MissAborts]_vars

\* an interface that skipped an inherited field has its entry, and the
\* lookup of an object implementing a name without an entry ended the run
C12_Witness ==
    /\ result = ErrUnresolvedInterface
    /\ \E n \in DOMAIN resolved :
           Len(resolved[n]) < Cardinality(DeclaredFieldNames(n))
    /\ \E d \in FragmentDefs :
           /\ d.kind = "Object"
           /\ HeaderAt(d.name) # {}
           /\ d.name \notin DOMAIN resolved

====
